---- MODULE Spec2Model ----
(***************************************************************************)
(* Model of the propagation workers of SPS (src/workers.py) over the data  *)
(* model of src/model.py.                                                  *)
(*                                                                         *)
(* UpdateTaskCompletion ("Aggregator") recomputes the derived fields of    *)
(* one task from its direct subtasks and enqueues itself for the parent.   *)
(* UpdateTaskHierarchy ("Locator") recomputes the hierarchy/level of one   *)
(* task from its parent and enqueues itself for every direct subtask.      *)
(*                                                                         *)
(* The datastore is one entity group: a transaction is one atomic step.    *)
(* The task queue delivers every job at least once, in any order.          *)
(***************************************************************************)
EXTENDS Integers, Sequences, FiniteSets, TLC

\* ------------------------------------------------------------------ bounds
NumNodes == 3
NumUsers == 2
MaxEdits == 4
MaxDupEdits == 3
MaxRedeliver == 1
MaxFail == 1
NumMessages == 2
MaxMessages == 3

Nodes == 1..NumNodes
Users == 1..NumUsers

\* A missing reference (parent_task / assignee default=None).
None == 0

\* workers.py:34; the model follows the production branch.
DEV_SERVER == FALSE

VARIABLES
    tasks,         \* id -> Task entity; DOMAIN tasks = the stored tasks
    index,         \* id -> TaskIndex entity; DOMAIN index = the stored indices
    users,         \* ids that have a User entity
    queue,         \* pending taskqueue jobs, each [url, task]
    fanout,        \* UpdateTaskHierarchy.post between its commit and its enqueues
    edits,         \* number of edits (create/complete/assign/move) so far
    redeliveries,  \* number of duplicate deliveries so far
    failures,      \* number of failed enqueues / aborted transactions so far
    txn,           \* the UpdateTaskCompletion transaction in progress, if any
    observe,       \* whether the two history variables below are recorded
    executed,      \* job -> number of its deliveries since the last edit
    moved,         \* the last edit, when it was a move: [node, old, new]
    session,       \* the user's Session, a dictionary
    returned,      \* what the last get_and_delete_messages returned
    sent           \* the messages added since the last get_and_delete_messages

vars == <<tasks, index, users, queue, fanout, edits, redeliveries, failures,
          txn, observe, executed, moved, session, returned, sent>>

\* The session of the browser and what the model records about it.
flash == <<session, returned, sent>>

\* The history variables.
hist == <<observe, executed, moved>>

\* ------------------------------------------------------------ data model

\* Mutant of NewTask: the default of derived_size is 0.
NewTask_SizeZero(parent, assignee) ==
    [ parent_task               |-> parent,
      assignee                  |-> assignee,
      completed                 |-> FALSE,
      derived_completed         |-> FALSE,
      derived_size              |-> 0,
      derived_atomic_task_count |-> 0,
      derived_level             |-> 0,
      derived_assignees         |-> << >>,
      derived_has_open_tasks    |-> FALSE ]

\* Task(...) with the defaults of model.py.
NewTask(parent, assignee) ==
    [ parent_task               |-> parent,
      assignee                  |-> assignee,
      completed                 |-> FALSE,
      derived_completed         |-> FALSE,
      derived_size              |-> 1,
      derived_atomic_task_count |-> 0,
      derived_level             |-> 0,
      derived_assignees         |-> << >>,
      derived_has_open_tasks    |-> FALSE ]

\* TaskIndex(parent=task, key_name=task_identifier) with the defaults of model.py.
\* assignees is a list built from dictionary keys; it is kept as a set.
NewTaskIndex ==
    [ hierarchy      |-> << >>,
      assignees      |-> {},
      completed      |-> FALSE,
      atomic         |-> FALSE,
      has_open_tasks |-> FALSE ]

\* TaskIndex.level = aetycoon.LengthProperty(hierarchy)
IndexLevel(idx) == Len(idx.hierarchy)

is_completed(t) == t.derived_completed

atomic(t) == t.derived_size = 1

has_open_tasks(t) == t.derived_has_open_tasks

atomic_task_count(t) == t.derived_atomic_task_count

open(t) == atomic(t) /\ ~is_completed(t) /\ t.assignee = None

\* sum(r['completed'] for r in derived_assignees.itervalues()) of Task.summary
RECURSIVE SumCompleted(_, _)
SumCompleted(da, S) ==
    IF S = {} THEN 0
    ELSE LET k == CHOOSE x \in S : TRUE
         IN  da[k].completed + SumCompleted(da, S \ {k})

summary_completed(t) == SumCompleted(t.derived_assignees, DOMAIN t.derived_assignees)

\* model.py:348-361, Task.subtasks_remaining(user_identifier); the same
\* difference is computed by personalized_summary (model.py:376-381).
subtasks_remaining(t, u) ==
    IF atomic(t) THEN 0
    ELSE IF u \in DOMAIN t.derived_assignees
         THEN t.derived_assignees[u].all - t.derived_assignees[u].completed
         ELSE 0

\* model.py:391-403, Task.is_active(user_identifier)
is_active(t, u) ==
    IF is_completed(t) THEN FALSE
    ELSE IF u \notin DOMAIN t.derived_assignees THEN FALSE
    ELSE t.derived_assignees[u].all - t.derived_assignees[u].completed > 0

\* ------------------------------------------------------------------ store

\* Task.all().ancestor(domain_key).filter('parent_task =', task.key())
Subtasks(T, n) == {c \in DOMAIN T : T[c].parent_task = n}

\* The orders in which the query may return a set of entities.
Orders(S) ==
    {s \in [1..Cardinality(S) -> S] : \A i, j \in DOMAIN s : i # j => s[i] # s[j]}

Put(f, k, v) == [x \in DOMAIN f \cup {k} |-> IF x = k THEN v ELSE f[x]]

\* Mutant of IndexPut: a TaskIndex that does not exist yet is not created.
IndexPut_NoCreate(I, n, idx) == IF n \in DOMAIN I THEN [I EXCEPT ![n] = idx] ELSE I

\* workers.py:66-68 with 125, and 210-214: index.put() of the TaskIndex that
\* was read or, when there was none, newly made.
IndexPut(I, n, idx) == Put(I, n, idx)

\* Mutant of AssigneeName: no placeholder for a user that is not found.
AssigneeName_NoPlaceholder(U, a) == IF DEV_SERVER THEN "temp" ELSE ToString(a)

\* api.get_user(assignee_identifier), then assignee.name or '<Missing>'
AssigneeName(U, a) ==
    IF DEV_SERVER THEN "temp"
    ELSE IF a \in U THEN ToString(a) ELSE "<Missing>"

\* ------------------------------------------------------------ task queue

CompletionJob(n) == [url |-> "update-task-completion", task |-> n]

HierarchyJob(n) == [url |-> "update-task-hierarchy", task |-> n]

\* --------------------------------------------- UpdateTaskCompletion.post

\* Mutant of AtomicTask: the assignee's record is added to the stored one.
AtomicTask_Accumulating(t, idx, U) ==
    LET t1 == [t EXCEPT !.derived_completed = t.completed,
                        !.derived_size = 1,
                        !.derived_atomic_task_count = 1]
        t2 == [t1 EXCEPT !.derived_has_open_tasks =
                            t1.derived_size = 1 /\ ~t1.derived_completed
                                /\ t1.assignee = None]
        a  == t.assignee
        old == IF a \in DOMAIN t.derived_assignees
               THEN t.derived_assignees[a]
               ELSE [id |-> a, name |-> "", completed |-> 0, all |-> 0]
    IN  IF a # None
        THEN [ task  |-> [t2 EXCEPT !.derived_assignees =
                            Put(@, a, [ id        |-> a,
                                        name      |-> AssigneeName(U, a),
                                        completed |-> old.completed
                                            + (IF t2.derived_completed THEN 1 ELSE 0),
                                        all       |-> old.all + 1 ])],
               index |-> [idx EXCEPT !.assignees = {a}] ]
        ELSE [ task |-> t2, index |-> idx ]

\* workers.py:75-96, the branch of a task without subtasks.  The stored
\* derived_assignees dictionary and index.assignees are only written when
\* the task has an assignee, and then only the assignee's own key is set.
AtomicTask(t, idx, U) ==
    LET t1 == [t EXCEPT !.derived_completed = t.completed,
                        !.derived_size = 1,
                        !.derived_atomic_task_count = 1]
        t2 == [t1 EXCEPT !.derived_has_open_tasks = open(t1)]
        a  == t.assignee
    IN  IF a # None
        THEN [ task  |-> [t2 EXCEPT !.derived_assignees =
                            Put(@, a, [ id        |-> a,
                                        name      |-> AssigneeName(U, a),
                                        completed |-> IF is_completed(t2) THEN 1 ELSE 0,
                                        all       |-> 1 ])],
               index |-> [idx EXCEPT !.assignees = {a}] ]
        ELSE [ task |-> t2, index |-> idx ]

\* Mutant of AddRecords: the counts are assigned instead of added.
AddRecords_Overwrite(assignees, sub) ==
    [id \in DOMAIN assignees \cup DOMAIN sub |->
        IF id \in DOMAIN sub
        THEN [ id |-> id, name |-> sub[id].name,
               completed |-> sub[id].completed, all |-> sub[id].all ]
        ELSE assignees[id]]

\* Mutant of AddRecords: 'completed' is added, 'all' is not.
AddRecords_AllDropped(assignees, sub) ==
    [id \in DOMAIN assignees \cup DOMAIN sub |->
        IF id \in DOMAIN sub
        THEN LET base == IF id \in DOMAIN assignees
                         THEN assignees[id]
                         ELSE [ id |-> id, name |-> sub[id].name,
                                completed |-> 0, all |-> 0 ]
             IN  [base EXCEPT !.completed = @ + sub[id].completed,
                              !.all = @]
        ELSE assignees[id]]

\* workers.py:109-118, one subtask's records added to the running totals.
AddRecords(assignees, sub) ==
    [id \in DOMAIN assignees \cup DOMAIN sub |->
        IF id \in DOMAIN sub
        THEN LET base == IF id \in DOMAIN assignees
                         THEN assignees[id]
                         ELSE [ id |-> id, name |-> sub[id].name,
                                completed |-> 0, all |-> 0 ]
             IN  [base EXCEPT !.completed = @ + sub[id].completed,
                              !.all = @ + sub[id].all]
        ELSE assignees[id]]

\* workers.py:106-118, the loop over the subtasks in query order.
RECURSIVE SumAssignees(_, _, _)
SumAssignees(T, ord, assignees) ==
    IF ord = << >> THEN assignees
    ELSE SumAssignees(T, Tail(ord), AddRecords(assignees, T[Head(ord)].derived_assignees))

RECURSIVE SeqSum(_)
SeqSum(s) == IF s = << >> THEN 0 ELSE Head(s) + SeqSum(Tail(s))

\* Mutant of CompositeCompleted: any() instead of all().
CompositeCompleted_Any(T, ord) == \E i \in DOMAIN ord : is_completed(T[ord[i]])

\* workers.py:98, all(t.is_completed() for t in subtasks)
CompositeCompleted(T, ord) == \A i \in DOMAIN ord : is_completed(T[ord[i]])

\* Mutant of CompositeSize: the task itself is not counted.
CompositeSize_NoSelf(T, ord) == SeqSum([i \in DOMAIN ord |-> T[ord[i]].derived_size])

\* workers.py:99, 1 + sum(t.derived_size for t in subtasks)
CompositeSize(T, ord) == 1 + SeqSum([i \in DOMAIN ord |-> T[ord[i]].derived_size])

\* workers.py:100-101, sum(t.atomic_task_count() for t in subtasks)
CompositeAtomicCount(T, ord) ==
    SeqSum([i \in DOMAIN ord |-> atomic_task_count(T[ord[i]])])

\* Mutant of CompositeHasOpenTasks: all() instead of any().
CompositeHasOpenTasks_All(T, ord) == \A i \in DOMAIN ord : has_open_tasks(T[ord[i]])

\* workers.py:102-103, any(t.has_open_tasks() for t in subtasks)
CompositeHasOpenTasks(T, ord) == \E i \in DOMAIN ord : has_open_tasks(T[ord[i]])

\* Mutant of CompositeTask: the TaskIndex is made anew, not read.
CompositeTask_NewIndex(T, t, idx, ord) ==
    LET assignees == SumAssignees(T, ord, << >>)
    IN  [ task  |-> [t EXCEPT
                      !.derived_completed = CompositeCompleted(T, ord),
                      !.derived_size = CompositeSize(T, ord),
                      !.derived_atomic_task_count = CompositeAtomicCount(T, ord),
                      !.derived_has_open_tasks = CompositeHasOpenTasks(T, ord),
                      !.derived_assignees = assignees],
          index |-> [NewTaskIndex EXCEPT !.assignees = DOMAIN assignees] ]

\* workers.py:97-120, the branch of a task with subtasks, returned in order ord.
CompositeTask(T, t, idx, ord) ==
    LET assignees == SumAssignees(T, ord, << >>)
    IN  [ task  |-> [t EXCEPT
                      !.derived_completed = CompositeCompleted(T, ord),
                      !.derived_size = CompositeSize(T, ord),
                      !.derived_atomic_task_count = CompositeAtomicCount(T, ord),
                      !.derived_has_open_tasks = CompositeHasOpenTasks(T, ord),
                      !.derived_assignees = assignees],
          index |-> [idx EXCEPT !.assignees = DOMAIN assignees] ]

\* Mutant of CompletionTxn: the TaskIndex flags are taken from the task as
\* it was read, before its derived fields are recomputed.
CompletionTxn_MirrorBefore(T, I, U, n, ord) ==
    LET idx == IF n \in DOMAIN I THEN I[n] ELSE NewTaskIndex
        r   == IF ord = << >>
               THEN AtomicTask(T[n], idx, U)
               ELSE CompositeTask(T, T[n], idx, ord)
    IN  [ task  |-> r.task,
          index |-> [r.index EXCEPT !.completed = is_completed(T[n]),
                                    !.has_open_tasks = has_open_tasks(T[n]),
                                    !.atomic = atomic(T[n])] ]

\* Mutant of CompletionTxn: a task that was composite stays on that branch.
CompletionTxn_StaysComposite(T, I, U, n, ord) ==
    LET idx == IF n \in DOMAIN I THEN I[n] ELSE NewTaskIndex
        r   == IF ord = << >> /\ T[n].derived_size = 1
               THEN AtomicTask(T[n], idx, U)
               ELSE CompositeTask(T, T[n], idx, ord)
    IN  [ task  |-> r.task,
          index |-> [r.index EXCEPT !.completed = is_completed(r.task),
                                    !.has_open_tasks = has_open_tasks(r.task),
                                    !.atomic = atomic(r.task)] ]

\* workers.py:66-125, what txn() puts for task n: its Task and its TaskIndex.
CompletionTxn(T, I, U, n, ord) ==
    LET idx == IF n \in DOMAIN I THEN I[n] ELSE NewTaskIndex
        r   == IF ord = << >>
               THEN AtomicTask(T[n], idx, U)
               ELSE CompositeTask(T, T[n], idx, ord)
    IN  [ task  |-> r.task,
          index |-> [r.index EXCEPT !.completed = is_completed(r.task),
                                    !.has_open_tasks = has_open_tasks(r.task),
                                    !.atomic = atomic(r.task)] ]

\* Mutant of CompletionEnqueued: the parent's job is not enqueued.
CompletionEnqueued_Dropped(t) == {}

\* Mutant of CompletionEnqueued: the job added for the parent is a Locator job.
CompletionEnqueued_Locator(t) ==
    IF t.parent_task # None THEN {HierarchyJob(t.parent_task)} ELSE {}

\* workers.py:126-130, the jobs txn() adds transactionally.
CompletionEnqueued(t) ==
    IF t.parent_task # None THEN {CompletionJob(t.parent_task)} ELSE {}

\* The queue after a delivery of job: a duplicate delivery (the queue is
\* at-least-once) leaves the job pending.
Delivered(job, dup) == IF dup THEN queue ELSE queue \ {job}

Redeliver(dup) ==
    /\ dup => redeliveries < MaxRedeliver
    /\ redeliveries' = IF dup THEN redeliveries + 1 ELSE redeliveries

Jobs == {CompletionJob(n) : n \in Nodes} \cup {HierarchyJob(n) : n \in Nodes}

NoMove == [node |-> None, old |-> None, new |-> None, exact |-> FALSE]

\* The outcomes of one queue.add call.
AddOutcomes == {"ok", "TransientError"}

\* Mutant of QueueAdd: queue.add is not tried a second time.
QueueAdd_Once(first, second) ==
    IF first = "ok"
    THEN [raised |-> "", calls |-> 1, added |-> 1]
    ELSE [raised |-> "TransientError", calls |-> 1, added |-> 0]

\* workers.py:164-167 and 260-263, queue.add tried again once after a
\* TransientError: what enqueue raises, the calls made, the jobs added.
QueueAdd(first, second) ==
    IF first = "ok"
    THEN [raised |-> "", calls |-> 1, added |-> 1]
    ELSE IF second = "ok"
    THEN [raised |-> "", calls |-> 2, added |-> 1]
    ELSE [raised |-> "TransientError", calls |-> 2, added |-> 0]

\* Mutant of enqueue: the check for an active transaction is missing.
enqueue_NoCheck(jobs, tr, in_transaction) ==
    IF tr /\ in_transaction
    THEN [raised |-> "", added |-> {}, held |-> jobs]
    ELSE [raised |-> "", added |-> jobs, held |-> {}]

\* workers.py:140-167 and 236-263, enqueue(..., transactional=tr) while a
\* transaction is or is not active: what it raises, the jobs it adds to the
\* queue at once and the jobs the active transaction holds until it commits.
enqueue(jobs, tr, in_transaction) ==
    IF tr /\ ~in_transaction
    THEN [raised |-> "ValueError", added |-> {}, held |-> {}]
    ELSE IF tr
    THEN [raised |-> "", added |-> {}, held |-> jobs]
    ELSE [raised |-> "", added |-> jobs, held |-> {}]

\* History: one more delivery of job.
ObserveDelivery(job) ==
    /\ executed' = IF observe THEN [executed EXCEPT ![job] = @ + 1] ELSE executed
    /\ UNCHANGED <<observe, moved>>

\* History: an edit, which is the move m or (NoMove) another edit; m.exact
\* tells whether every task had the aggregates of its subtree before the move.
ObserveEdit(m) ==
    /\ executed' = IF observe THEN [j \in Jobs |-> 0] ELSE executed
    /\ moved' = IF observe THEN m ELSE moved
    /\ UNCHANGED observe

\* Mutant of StaleDone: the request fails and the job stays to be retried.
StaleDone_Retry(job, dup) == queue

\* workers.py:62-65 and 189-192 with 220-221, the task does not exist: the
\* error is logged and the request returns normally, so the job is done.
StaleDone(job, dup) == Delivered(job, dup)

\* workers.py:55-136, one delivery of the job whose transaction commits.
UpdateTaskCompletion(n, dup) ==
    /\ CompletionJob(n) \in queue
    /\ Redeliver(dup)
    /\ ObserveDelivery(CompletionJob(n))
    /\ IF n \notin DOMAIN tasks
       THEN /\ queue' = StaleDone(CompletionJob(n), dup)
            /\ UNCHANGED <<tasks, index>>
       ELSE \E ord \in Orders(Subtasks(tasks, n)) :
              LET r == CompletionTxn(tasks, index, users, n, ord)
              IN  /\ tasks' = [tasks EXCEPT ![n] = r.task]
                  /\ index' = IndexPut(index, n, r.index)
                  /\ queue' = Delivered(CompletionJob(n), dup)
                                \cup CompletionEnqueued(r.task)
    /\ UNCHANGED <<flash, users, fanout, edits, failures, txn>>

\* ------------------------------- UpdateTaskCompletion.post, step by step

\* No UpdateTaskCompletion transaction is in progress.
NoTxn == [task |-> None]

\* Mutant of transactional: the job is added outside the transaction.
transactional_False == FALSE

\* workers.py:128-130, enqueue(..., transactional=True)
transactional == TRUE

\* workers.py:60-125, db.run_in_transaction starts txn(): the reads see the
\* store as it is now, the two put() calls are buffered until the commit.
TxnBegin(n) ==
    /\ txn = NoTxn
    /\ CompletionJob(n) \in queue
    /\ IF n \notin DOMAIN tasks
       THEN txn' = [ task |-> n, exists |-> FALSE,
                     read |-> [tasks |-> tasks, index |-> index],
                     added |-> {}, pc |-> "commit" ]
       ELSE \E ord \in Orders(Subtasks(tasks, n)) :
              LET r == CompletionTxn(tasks, index, users, n, ord)
              IN  txn' = [ task |-> n, exists |-> TRUE,
                           read |-> [tasks |-> tasks, index |-> index],
                           put |-> r, added |-> {},
                           pc |-> IF r.task.parent_task # None
                                  THEN "enqueue" ELSE "commit" ]
    /\ UNCHANGED <<flash, tasks, index, users, queue, fanout, edits, redeliveries,
                   failures, hist>>

\* workers.py:126-130 and 160-167, queue.add succeeds: a transactional job
\* is held by the transaction, any other job is in the queue at once.
TxnEnqueue ==
    /\ txn # NoTxn
    /\ txn.pc = "enqueue"
    /\ \E first, second \in AddOutcomes : QueueAdd(first, second).raised = ""
    /\ LET e == enqueue(CompletionEnqueued(txn.put.task), transactional, TRUE)
       IN  /\ e.raised = ""
           /\ txn' = [txn EXCEPT !.added = e.held, !.pc = "commit"]
           /\ queue' = queue \cup e.added
    /\ UNCHANGED <<flash, tasks, index, users, fanout, edits, redeliveries, failures, hist>>

\* workers.py:164-167, queue.add raises TransientError twice: txn() raises,
\* the transaction is rolled back and the delivery fails, so the job of n
\* stays pending.
TxnEnqueueFail ==
    /\ txn # NoTxn
    /\ txn.pc = "enqueue"
    /\ \E first, second \in AddOutcomes : QueueAdd(first, second).raised # ""
    /\ failures < MaxFail
    /\ failures' = failures + 1
    /\ txn' = NoTxn
    /\ UNCHANGED <<flash, tasks, index, users, queue, fanout, edits, redeliveries, hist>>

\* workers.py:131-136, txn() has returned and no other commit has touched
\* the entity group since the transaction began: the buffered writes and
\* the transactional job become visible together, the delivery succeeds.
TxnCommit ==
    /\ txn # NoTxn
    /\ txn.pc = "commit"
    /\ tasks = txn.read.tasks
    /\ index = txn.read.index
    /\ IF txn.exists
       THEN /\ tasks' = [tasks EXCEPT ![txn.task] = txn.put.task]
            /\ index' = IndexPut(index, txn.task, txn.put.index)
       ELSE UNCHANGED <<tasks, index>>
    /\ queue' = (queue \ {CompletionJob(txn.task)}) \cup txn.added
    /\ txn' = NoTxn
    /\ UNCHANGED <<flash, users, fanout, edits, redeliveries, failures, hist>>

\* workers.py:131-136, another commit has touched the entity group since the
\* transaction began: the commit fails, nothing is written or enqueued and
\* the job of n stays pending.
TxnConflict ==
    /\ txn # NoTxn
    /\ txn.pc = "commit"
    /\ tasks # txn.read.tasks \/ index # txn.read.index
    /\ txn' = NoTxn
    /\ UNCHANGED <<flash, tasks, index, users, queue, fanout, edits, redeliveries,
                   failures, hist>>

\* ---------------------------------------------- UpdateTaskHierarchy.post

\* Mutant of HierarchyOf: the level is counted up from the task's own level.
HierarchyOf_OwnLevel(T, I, n) ==
    LET p == T[n].parent_task
    IN  IF p # None
        THEN [ hierarchy |-> Append(I[p].hierarchy, p),
               level     |-> T[n].derived_level + 1 ]
        ELSE [ hierarchy |-> << >>, level |-> 0 ]

\* Mutant of HierarchyOf: the parent is not appended to its own hierarchy.
HierarchyOf_NoAppend(T, I, n) ==
    LET p == T[n].parent_task
    IN  IF p # None
        THEN [ hierarchy |-> I[p].hierarchy,
               level     |-> T[p].derived_level + 1 ]
        ELSE [ hierarchy |-> << >>, level |-> 0 ]

\* workers.py:193-209, hierarchy and level from the parent's stored index
\* and the parent's stored derived_level.
HierarchyOf(T, I, n) ==
    LET p == T[n].parent_task
    IN  IF p # None
        THEN [ hierarchy |-> Append(I[p].hierarchy, p),
               level     |-> T[p].derived_level + 1 ]
        ELSE [ hierarchy |-> << >>, level |-> 0 ]

\* workers.py:195-203, the parent exists and has no TaskIndex.
ParentIndexMissing(T, I, n) ==
    T[n].parent_task # None /\ T[n].parent_task \notin DOMAIN I

\* Mutant of AfterHierarchy: the level of the task is not written.
AfterHierarchy_IndexOnly(T, I, n) ==
    LET h   == HierarchyOf(T, I, n)
        idx == IF n \in DOMAIN I THEN I[n] ELSE NewTaskIndex
    IN  [ tasks |-> T,
          index |-> IndexPut(I, n, [idx EXCEPT !.hierarchy = h.hierarchy]) ]

\* workers.py:210-216, the store after txn() has committed on n.
AfterHierarchy(T, I, n) ==
    LET h   == HierarchyOf(T, I, n)
        idx == IF n \in DOMAIN I THEN I[n] ELSE NewTaskIndex
    IN  [ tasks |-> [T EXCEPT ![n].derived_level = h.level],
          index |-> IndexPut(I, n, [idx EXCEPT !.hierarchy = h.hierarchy]) ]

\* Mutant of RetryLater: the request ends as done.
RetryLater_Done(job) == queue \ {job}

\* workers.py:199-203, the request fails (self.error(400); in fact the
\* undefined name parent_identifier on line 201 raises first, which fails
\* the request too): the job stays in the queue to be delivered again.
RetryLater(job) == queue

\* Mutant of FanoutIf: post() goes on to the subtask query whatever txn()
\* returned.
FanoutIf_Always(committed, n) == fanout \cup {n}

\* workers.py:219-221, post() goes on to the subtask query only when txn()
\* returned the task it has written.
FanoutIf(committed, n) == IF committed THEN fanout \cup {n} ELSE fanout

\* workers.py:187-221, one delivery of the job up to the end of txn().
UpdateTaskHierarchy(n, dup) ==
    /\ HierarchyJob(n) \in queue
    /\ Redeliver(dup)
    /\ ObserveDelivery(HierarchyJob(n))
    /\ IF n \notin DOMAIN tasks
       THEN /\ queue' = StaleDone(HierarchyJob(n), dup)
            /\ fanout' = FanoutIf(FALSE, n)
            /\ UNCHANGED <<tasks, index>>
       ELSE IF ParentIndexMissing(tasks, index, n)
       THEN /\ queue' = RetryLater(HierarchyJob(n))
            /\ fanout' = FanoutIf(FALSE, n)
            /\ UNCHANGED <<tasks, index>>
       ELSE LET r == AfterHierarchy(tasks, index, n)
            IN  /\ index' = r.index
                /\ tasks' = r.tasks
                /\ fanout' = FanoutIf(TRUE, n)
                /\ queue' = Delivered(HierarchyJob(n), dup)
    /\ UNCHANGED <<flash, users, edits, failures, txn>>

\* Mutant of HierarchyChildren: the query has lost its parent_task filter.
HierarchyChildren_Unfiltered(T, n) == DOMAIN T

\* workers.py:228-230, the keys-only query for the direct subtasks.
HierarchyChildren(T, n) == Subtasks(T, n)

\* workers.py:228-234, the enqueues after the commit, all succeeding.
HierarchyFanout(n) ==
    /\ n \in fanout
    /\ fanout' = fanout \ {n}
    /\ LET e == enqueue({HierarchyJob(c) : c \in HierarchyChildren(tasks, n)},
                        FALSE, FALSE)
       IN  e.raised = "" /\ queue' = queue \cup e.added
    /\ UNCHANGED <<flash, tasks, index, users, edits, redeliveries, failures, txn, hist>>

\* Mutant of FanoutFailed: the exception is swallowed and the job is done.
FanoutFailed_Swallowed(n) == {}

\* workers.py:231-234, the exception of a failed enqueue leaves post(): the
\* request fails and the job of n is delivered again.
FanoutFailed(n) == {HierarchyJob(n)}

\* workers.py:231-234 with 260-263, an enqueue raising after the subtasks in
\* done were enqueued: the request fails and the job is delivered again.
HierarchyFanoutFail(n) ==
    /\ n \in fanout
    /\ \E first, second \in AddOutcomes : QueueAdd(first, second).raised # ""
    /\ failures < MaxFail
    /\ \E done \in SUBSET HierarchyChildren(tasks, n) :
        /\ done # HierarchyChildren(tasks, n)
        /\ queue' = queue \cup {HierarchyJob(c) : c \in done} \cup FanoutFailed(n)
    /\ fanout' = fanout \ {n}
    /\ failures' = failures + 1
    /\ UNCHANGED <<flash, tasks, index, users, edits, redeliveries, txn, hist>>

\* ------------------------------------------------- the tree as it is stored

RECURSIVE Ancestors(_, _)
Ancestors(T, n) ==
    IF T[n].parent_task = None THEN {}
    ELSE {T[n].parent_task} \cup Ancestors(T, T[n].parent_task)

\* n and the tasks below it, by the stored parent references.
Subtree(T, n) == {m \in DOMAIN T : m = n \/ n \in Ancestors(T, m)}

\* The tasks of n's subtree that have no subtasks.
AtomicTasks(T, n) == {m \in Subtree(T, n) : Subtasks(T, m) = {}}

\* The atomic tasks of n's subtree that are assigned to a.
AssignedAtomic(T, n, a) == {m \in AtomicTasks(T, n) : T[m].assignee = a}

\* The aggregates of task n are those of its subtree as it is stored: what
\* the derived fields are documented to hold (model.py:195-226).
ExactAggregates(T, n) ==
    /\ T[n].derived_size = Cardinality(Subtree(T, n))
    /\ T[n].derived_atomic_task_count = Cardinality(AtomicTasks(T, n))
    /\ T[n].derived_completed = (\A m \in AtomicTasks(T, n) : T[m].completed)
    /\ T[n].derived_has_open_tasks =
          (\E m \in AtomicTasks(T, n) : ~T[m].completed /\ T[m].assignee = None)
    /\ \A a \in Users :
          LET da == T[n].derived_assignees
              L  == AssignedAtomic(T, n, a)
          IN  /\ a \in DOMAIN da <=> L # {}
              /\ a \in DOMAIN da =>
                    /\ da[a].all = Cardinality(L)
                    /\ da[a].completed = Cardinality({m \in L : T[m].completed})

\* ------------------------------------------------------------------ edits

\* The logged-in user of the edits that assign "to self".
LoggedIn == CHOOSE u \in Users : TRUE

\* api.create_task (main.py:334-341): a new task with the next numeric id,
\* assigned to the logged-in user or to nobody; its jobs are enqueued in the
\* transaction that stores it.
CreateTask(parent, assignee) ==
    LET id == Cardinality(DOMAIN tasks) + 1
    IN  /\ id <= NumNodes
        /\ assignee \in {None} \cup ({LoggedIn} \cap users)
        /\ tasks' = Put(tasks, id, NewTask(parent, assignee))
        /\ queue' = queue \cup {CompletionJob(id)}
                          \cup (IF parent # None THEN {HierarchyJob(id)} ELSE {})
        /\ edits < MaxEdits
        /\ edits' = edits + 1
        /\ ObserveEdit(NoMove)
        /\ UNCHANGED <<flash, index, users, fanout, redeliveries, failures, txn>>

\* api.set_task_completed: only the assignee completes a task (main.py:414-419).
SetTaskCompleted(n, completed) ==
    /\ Subtasks(tasks, n) = {}
    /\ tasks[n].assignee \in users
    /\ tasks[n].completed # completed
    /\ tasks' = [tasks EXCEPT ![n].completed = completed]
    /\ queue' = queue \cup {CompletionJob(n)}
    /\ edits < MaxEdits
    /\ edits' = edits + 1
    /\ ObserveEdit(NoMove)
    /\ UNCHANGED <<flash, index, users, fanout, redeliveries, failures, txn>>

\* api.assign_task: the assignee is an existing User (main.py:455-460).
AssignTask(n, assignee) ==
    /\ Subtasks(tasks, n) = {}
    /\ assignee \in users
    /\ tasks[n].assignee # assignee
    /\ tasks' = [tasks EXCEPT ![n].assignee = assignee]
    /\ queue' = queue \cup {CompletionJob(n)}
    /\ edits < MaxEdits
    /\ edits' = edits + 1
    /\ ObserveEdit(NoMove)
    /\ UNCHANGED <<flash, index, users, fanout, redeliveries, failures, txn>>

\* api.change_task_parent: the forest stays a forest.
ChangeTaskParent(n, parent) ==
    LET old == tasks[n].parent_task
    IN  /\ parent # old
        /\ parent # n
        /\ parent # None => n \notin Ancestors(tasks, parent)
        /\ tasks' = [tasks EXCEPT ![n].parent_task = parent]
        /\ queue' = queue \cup {HierarchyJob(n)}
                          \cup (IF old # None THEN {CompletionJob(old)} ELSE {})
                          \cup (IF parent # None THEN {CompletionJob(parent)} ELSE {})
        /\ edits < MaxEdits
        /\ edits' = edits + 1
        /\ ObserveEdit([node |-> n, old |-> old, new |-> parent,
                        exact |-> \A m \in DOMAIN tasks : ExactAggregates(tasks, m)])
        /\ UNCHANGED <<flash, index, users, fanout, redeliveries, failures, txn>>

\* A job is in the queue for an identifier under which no task is stored
\* (the task it was enqueued for is gone, or never was); counted as an edit.
StaleJob(job) ==
    /\ job.task \notin DOMAIN tasks
    /\ job \notin queue
    /\ queue' = queue \cup {job}
    /\ edits < MaxEdits
    /\ edits' = edits + 1
    /\ UNCHANGED <<flash, tasks, index, users, fanout, redeliveries, failures, txn, hist>>

\* The User entity of u is deleted (user administration, outside the workers).
RemoveUser(u) ==
    /\ u \in users
    /\ users' = users \ {u}
    /\ UNCHANGED <<flash, tasks, index, queue, fanout, edits, redeliveries, failures, txn, hist>>

\* ------------------------------------------------ session flash messages

\* Session(...) without a 'messages' entry: the empty dictionary.
NewSession == << >>

\* The texts a handler may pass to add_message (main.py:342, 377, 410, 463, 485).
Messages == 1..NumMessages

\* session.setdefault(key, default): the value stored under key, which is
\* default, stored first, when there was none.
setdefault(s, key, default) ==
    IF key \in DOMAIN s
    THEN [ session |-> s, value |-> s[key] ]
    ELSE [ session |-> Put(s, key, default), value |-> default ]

\* Mutant of del: the entry is kept.
del_Kept(s, key) == s

\* del session[key]
del(s, key) == [k \in DOMAIN s \ {key} |-> s[k]]

\* main.py:25-36, add_message(session, message).  The handlers that change
\* the task tree call it after their edit has been stored; it touches the
\* session only.
add_message(message) ==
    /\ Len(sent) < MaxMessages
    /\ LET s1 == IF "messages" \notin DOMAIN session
                 THEN Put(session, "messages", << >>)
                 ELSE session
       IN  session' = Put(s1, "messages", s1["messages"] \o <<message>>)
    /\ sent' = Append(sent, message)
    /\ UNCHANGED <<tasks, index, users, queue, fanout, edits, redeliveries,
                   failures, txn, hist, returned>>

\* main.py:39-50, get_and_delete_messages(session)
get_and_delete_messages ==
    /\ LET r == setdefault(session, "messages", << >>)
       IN  /\ session' = del(r.session, "messages")
           /\ returned' = r.value
    /\ sent' = << >>
    /\ UNCHANGED <<tasks, index, users, queue, fanout, edits, redeliveries,
                   failures, txn, hist>>

\* ---------------------------------------------------------- specification

Init ==
    /\ tasks = << >>
    /\ index = << >>
    /\ users = Users
    /\ queue = {}
    /\ fanout = {}
    /\ edits = 0
    /\ redeliveries = 0
    /\ failures = 0
    /\ txn = NoTxn
    /\ observe = FALSE
    /\ executed = [j \in Jobs |-> 0]
    /\ moved = NoMove
    /\ session = NewSession
    /\ returned = << >>
    /\ sent = << >>

\* Edits of the task tree (at most MaxEdits) and deliveries of the pending
\* jobs, each job delivered exactly once.
Next ==
    \/ \E p \in DOMAIN tasks \cup {None}, a \in Users \cup {None} : CreateTask(p, a)
    \/ \E n \in DOMAIN tasks, c \in BOOLEAN : SetTaskCompleted(n, c)
    \/ \E n \in DOMAIN tasks, a \in Users : AssignTask(n, a)
    \/ \E n \in DOMAIN tasks, p \in DOMAIN tasks \cup {None} : ChangeTaskParent(n, p)
    \/ \E n \in Nodes : UpdateTaskCompletion(n, FALSE)
    \/ \E n \in Nodes : UpdateTaskHierarchy(n, FALSE)
    \/ \E n \in Nodes : HierarchyFanout(n)

Spec == Init /\ [][Next]_vars

\* The requests of one browser session: handlers adding a message, pages
\* showing and clearing them.
NextSession ==
    \/ \E message \in Messages : add_message(message)
    \/ get_and_delete_messages

SpecSession == Init /\ [][NextSession]_vars

\* At-least-once delivery: up to MaxRedeliver deliveries are duplicates.
NextDup ==
    \/ \E p \in DOMAIN tasks \cup {None}, a \in Users \cup {None} : CreateTask(p, a)
    \/ \E n \in DOMAIN tasks, c \in BOOLEAN : SetTaskCompleted(n, c)
    \/ \E n \in DOMAIN tasks, a \in Users : AssignTask(n, a)
    \/ \E n \in DOMAIN tasks, p \in DOMAIN tasks \cup {None} : ChangeTaskParent(n, p)
    \/ \E n \in Nodes, dup \in BOOLEAN : UpdateTaskCompletion(n, dup)
    \/ \E n \in Nodes, dup \in BOOLEAN : UpdateTaskHierarchy(n, dup)
    \/ \E n \in Nodes : HierarchyFanout(n)

\* The specifications with duplicate deliveries or with stepwise transactions
\* allow MaxDupEdits edits.
InitDup ==
    /\ tasks = << >>
    /\ index = << >>
    /\ users = Users
    /\ queue = {}
    /\ fanout = {}
    /\ edits = MaxEdits - MaxDupEdits
    /\ redeliveries = 0
    /\ failures = 0
    /\ txn = NoTxn
    /\ observe = FALSE
    /\ executed = [j \in Jobs |-> 0]
    /\ moved = NoMove
    /\ session = NewSession
    /\ returned = << >>
    /\ sent = << >>

SpecDup == InitDup /\ [][NextDup]_vars

\* One edit at a time: an edit is made when the previous one has propagated,
\* and the deliveries that follow it are recorded in the history variables.
InitSeq ==
    /\ tasks = << >>
    /\ index = << >>
    /\ users = Users
    /\ queue = {}
    /\ fanout = {}
    /\ edits = 0
    /\ redeliveries = 0
    /\ failures = 0
    /\ txn = NoTxn
    /\ observe = TRUE
    /\ executed = [j \in Jobs |-> 0]
    /\ moved = NoMove
    /\ session = NewSession
    /\ returned = << >>
    /\ sent = << >>

NextSeq ==
    \/ \E p \in DOMAIN tasks \cup {None}, a \in Users \cup {None} :
          queue = {} /\ fanout = {} /\ CreateTask(p, a)
    \/ \E n \in DOMAIN tasks, c \in BOOLEAN :
          queue = {} /\ fanout = {} /\ SetTaskCompleted(n, c)
    \/ \E n \in DOMAIN tasks, a \in Users :
          queue = {} /\ fanout = {} /\ AssignTask(n, a)
    \/ \E n \in DOMAIN tasks, p \in DOMAIN tasks \cup {None} :
          queue = {} /\ fanout = {} /\ ChangeTaskParent(n, p)
    \/ \E n \in Nodes : UpdateTaskCompletion(n, FALSE)
    \/ \E n \in Nodes : UpdateTaskHierarchy(n, FALSE)
    \/ \E n \in Nodes : HierarchyFanout(n)

SpecSeq == InitSeq /\ [][NextSeq]_vars

\* Edits interleaved with the steps of one UpdateTaskCompletion transaction
\* at a time; up to MaxFail transactional enqueues fail.
NextTxn ==
    \/ \E p \in DOMAIN tasks \cup {None}, a \in Users \cup {None} : CreateTask(p, a)
    \/ \E n \in DOMAIN tasks, c \in BOOLEAN : SetTaskCompleted(n, c)
    \/ \E n \in DOMAIN tasks, a \in Users : AssignTask(n, a)
    \/ \E n \in DOMAIN tasks, p \in DOMAIN tasks \cup {None} : ChangeTaskParent(n, p)
    \/ \E n \in Nodes : TxnBegin(n)
    \/ TxnEnqueue
    \/ TxnEnqueueFail
    \/ TxnCommit
    \/ TxnConflict
    \/ \E n \in Nodes : UpdateTaskHierarchy(n, FALSE)
    \/ \E n \in Nodes : HierarchyFanout(n)

SpecTxn == InitDup /\ [][NextTxn]_vars

\* The queue keeps delivering: a pending job is eventually executed.
Deliver ==
    \E n \in Nodes : \/ UpdateTaskCompletion(n, FALSE)
                     \/ UpdateTaskHierarchy(n, FALSE)
                     \/ HierarchyFanout(n)

FairSpecDup == SpecDup /\ WF_vars(Deliver)

\* One edit at a time, and up to MaxFail failing enqueues of subtask jobs.
NextFail ==
    \/ \E p \in DOMAIN tasks \cup {None}, a \in Users \cup {None} :
          queue = {} /\ fanout = {} /\ CreateTask(p, a)
    \/ \E n \in DOMAIN tasks, c \in BOOLEAN :
          queue = {} /\ fanout = {} /\ SetTaskCompleted(n, c)
    \/ \E n \in DOMAIN tasks, a \in Users :
          queue = {} /\ fanout = {} /\ AssignTask(n, a)
    \/ \E n \in DOMAIN tasks, p \in DOMAIN tasks \cup {None} :
          queue = {} /\ fanout = {} /\ ChangeTaskParent(n, p)
    \/ \E n \in Nodes : UpdateTaskCompletion(n, FALSE)
    \/ \E n \in Nodes : UpdateTaskHierarchy(n, FALSE)
    \/ \E n \in Nodes : HierarchyFanout(n)
    \/ \E n \in Nodes : HierarchyFanoutFail(n)

SpecFail == InitSeq /\ [][NextFail]_vars

FairSpecFail == SpecFail /\ WF_vars(Deliver)

\* Edits and deliveries while User entities are deleted.
NextUsers ==
    \/ \E p \in DOMAIN tasks \cup {None}, a \in Users \cup {None} : CreateTask(p, a)
    \/ \E n \in DOMAIN tasks, c \in BOOLEAN : SetTaskCompleted(n, c)
    \/ \E n \in DOMAIN tasks, a \in Users : AssignTask(n, a)
    \/ \E n \in DOMAIN tasks, p \in DOMAIN tasks \cup {None} : ChangeTaskParent(n, p)
    \/ \E u \in Users : RemoveUser(u)
    \/ \E n \in Nodes : UpdateTaskCompletion(n, FALSE)
    \/ \E n \in Nodes : UpdateTaskHierarchy(n, FALSE)
    \/ \E n \in Nodes : HierarchyFanout(n)

SpecUsers == InitDup /\ [][NextUsers]_vars

\* Duplicate deliveries, and jobs for identifiers that have no task.
NextStale ==
    \/ \E p \in DOMAIN tasks \cup {None}, a \in Users \cup {None} : CreateTask(p, a)
    \/ \E n \in DOMAIN tasks, c \in BOOLEAN : SetTaskCompleted(n, c)
    \/ \E n \in DOMAIN tasks, a \in Users : AssignTask(n, a)
    \/ \E n \in DOMAIN tasks, p \in DOMAIN tasks \cup {None} : ChangeTaskParent(n, p)
    \/ \E job \in Jobs : StaleJob(job)
    \/ \E n \in Nodes, dup \in BOOLEAN : UpdateTaskCompletion(n, dup)
    \/ \E n \in Nodes, dup \in BOOLEAN : UpdateTaskHierarchy(n, dup)
    \/ \E n \in Nodes : HierarchyFanout(n)

SpecStale == InitDup /\ [][NextStale]_vars

FairSpecStale == SpecStale /\ WF_vars(Deliver)

\* ----------------------------------------------------------- convergence

\* No job is pending and no request is in flight.
Quiescent == queue = {} /\ fanout = {}

RECURSIVE SumFn(_, _)
SumFn(f, S) ==
    IF S = {} THEN 0
    ELSE LET k == CHOOSE x \in S : TRUE IN f[k] + SumFn(f, S \ {k})

\* The count of field (completed / all) of assignee a in t's derived_assignees.
CountOf(t, a, field) ==
    IF a \in DOMAIN t.derived_assignees THEN t.derived_assignees[a][field] ELSE 0

\* The section 3 invariants of task n against its direct subtasks and parent.
SizeInvariant(n) ==
    tasks[n].derived_size =
        1 + SumFn([c \in Subtasks(tasks, n) |-> tasks[c].derived_size], Subtasks(tasks, n))

AtomicCountInvariant(n) ==
    tasks[n].derived_atomic_task_count =
        IF Subtasks(tasks, n) = {} THEN 1
        ELSE SumFn([c \in Subtasks(tasks, n) |-> tasks[c].derived_atomic_task_count],
                   Subtasks(tasks, n))

PathInvariant(n) ==
    /\ n \in DOMAIN index
    /\ index[n].hierarchy =
          IF tasks[n].parent_task = None THEN << >>
          ELSE Append(index[tasks[n].parent_task].hierarchy, tasks[n].parent_task)
    /\ tasks[n].derived_level = Len(index[n].hierarchy)

AssigneesInvariant(n) ==
    LET kids == Subtasks(tasks, n)
    IN  kids # {} =>
          /\ DOMAIN tasks[n].derived_assignees =
                UNION {DOMAIN tasks[c].derived_assignees : c \in kids}
          /\ \A a \in DOMAIN tasks[n].derived_assignees :
                /\ tasks[n].derived_assignees[a].completed =
                      SumFn([c \in kids |-> CountOf(tasks[c], a, "completed")], kids)
                /\ tasks[n].derived_assignees[a].all =
                      SumFn([c \in kids |-> CountOf(tasks[c], a, "all")], kids)

FixedPoint ==
    \A n \in DOMAIN tasks :
        /\ SizeInvariant(n)
        /\ AtomicCountInvariant(n)
        /\ PathInvariant(n)
        /\ AssigneesInvariant(n)

\* ------------------------------------------------------------------ claims

\* C1: after any edits, delivering the pending jobs in any order, duplicates
\* included, ends with no job pending, and whenever no job is pending every
\* task satisfies the size, atomic count, path, depth and (for a task with
\* subtasks) assignee-sum invariants against its direct subtasks and parent.
C1_FixedPoint == [](Quiescent => FixedPoint) /\ <>[]Quiescent

C1_Witness ==
    /\ Quiescent
    /\ edits = MaxEdits
    /\ redeliveries > 0
    /\ \E n \in DOMAIN tasks : tasks[n].derived_level = 2
    /\ \E n \in DOMAIN tasks :
          Subtasks(tasks, n) # {} /\ DOMAIN tasks[n].derived_assignees # {}

\* C2: when no job is pending, the derived_assignees of every task has key a
\* iff an atomic task of its subtree is assigned to a, with 'all' the number
\* of those tasks and 'completed' the number of them that are completed.
C2_AssigneeProgress ==
    Quiescent =>
        \A n \in DOMAIN tasks, a \in Users :
            LET da == tasks[n].derived_assignees
                L  == AssignedAtomic(tasks, n, a)
            IN  /\ a \in DOMAIN da <=> L # {}
                /\ a \in DOMAIN da =>
                      /\ da[a].all = Cardinality(L)
                      /\ da[a].completed = Cardinality({m \in L : tasks[m].completed})

\* C3: when no job is pending, derived_size is the number of tasks in the
\* subtree and derived_atomic_task_count the number of its childless tasks.
C3_SizeAndAtomicCount ==
    Quiescent =>
        \A n \in DOMAIN tasks :
            /\ tasks[n].derived_size = Cardinality(Subtree(tasks, n))
            /\ tasks[n].derived_atomic_task_count = Cardinality(AtomicTasks(tasks, n))

C3_Witness ==
    /\ Quiescent
    /\ edits = MaxEdits
    /\ \E n \in DOMAIN tasks :
          /\ tasks[n].derived_size = 3
          /\ tasks[n].derived_atomic_task_count = 2

\* The old and the new parent of the last move, and their ancestors.
MoveAffected ==
    LET ends == {moved.old, moved.new} \ {None}
    IN  ends \cup UNION {Ancestors(tasks, x) : x \in ends}

\* C4: a move made when every task had the aggregates of its subtree, once
\* its jobs have run, leaves the old parent, the new parent and all their
\* ancestors with the aggregates of their subtrees as they now are (without
\* the moved subtree on the old side, with it on the new side).
C4_MoveAggregates ==
    (Quiescent /\ moved.node # None /\ moved.exact) =>
        \A x \in MoveAffected : ExactAggregates(tasks, x)

\* C5: when the jobs of a move have run, the Locator was delivered exactly
\* once for every task of the moved subtree and never for a task outside it
\* (and never more often on the way there), and every task of the subtree
\* stores its parent's path + [parent] and its parent's depth + 1.
C5_LocatorOncePerSubtree ==
    moved.node # None =>
        /\ \A m \in Nodes :
              executed[HierarchyJob(m)] <=
                  (IF m \in Subtree(tasks, moved.node) THEN 1 ELSE 0)
        /\ Quiescent =>
              \A m \in Subtree(tasks, moved.node) :
                  /\ executed[HierarchyJob(m)] = 1
                  /\ PathInvariant(m)
                  /\ tasks[m].parent_task # None =>
                        tasks[m].derived_level =
                            tasks[tasks[m].parent_task].derived_level + 1

C5_Witness ==
    /\ Quiescent
    /\ moved.node # None
    /\ moved.new # None
    /\ tasks[moved.new].parent_task = None
    /\ \E c \in DOMAIN tasks :
          /\ tasks[c].parent_task = moved.node
          /\ executed[HierarchyJob(c)] = 1
          /\ index[c].hierarchy = <<moved.new, moved.node>>

\* The stored aggregates of n are the aggregation of the stored derived
\* fields of its direct subtasks.
AggregatesMatchSubtasks(T, n) ==
    LET kids == Subtasks(T, n)
    IN  kids # {} =>
          /\ T[n].derived_completed = (\A c \in kids : T[c].derived_completed)
          /\ T[n].derived_has_open_tasks = (\E c \in kids : T[c].derived_has_open_tasks)
          /\ T[n].derived_size = 1 + SumFn([c \in kids |-> T[c].derived_size], kids)
          /\ T[n].derived_atomic_task_count =
                SumFn([c \in kids |-> T[c].derived_atomic_task_count], kids)
          /\ DOMAIN T[n].derived_assignees =
                UNION {DOMAIN T[c].derived_assignees : c \in kids}
          /\ \A a \in DOMAIN T[n].derived_assignees :
                /\ T[n].derived_assignees[a].completed =
                      SumFn([c \in kids |-> CountOf(T[c], a, "completed")], kids)
                /\ T[n].derived_assignees[a].all =
                      SumFn([c \in kids |-> CountOf(T[c], a, "all")], kids)

\* The job of a parent has run over a subtask whose own job is still pending.
OutOfOrder ==
    \E c \in DOMAIN tasks :
        /\ tasks[c].parent_task # None
        /\ CompletionJob(c) \in queue
        /\ tasks[c].parent_task \in DOMAIN index
        /\ tasks[tasks[c].parent_task].derived_size > 1

\* C6: when a parent's job has run before the job of its subtask, with
\* duplicate deliveries, the jobs all get delivered, and whenever none is
\* pending every parent's stored aggregates are the aggregation of its
\* subtasks' stored derived fields.
C6_OutOfOrder ==
    /\ OutOfOrder ~> Quiescent
    /\ [](Quiescent => \A n \in DOMAIN tasks : AggregatesMatchSubtasks(tasks, n))

C6_Witness ==
    /\ redeliveries > 0
    /\ \E c \in DOMAIN tasks :
          /\ tasks[c].parent_task # None
          /\ CompletionJob(c) \in queue
          /\ tasks[c].derived_atomic_task_count = 0
          /\ tasks[tasks[c].parent_task].derived_size > 1
          /\ CompletionJob(tasks[c].parent_task) \notin queue

\* A delivery of the Aggregator job of n that commits.
CompletionCommit(n) ==
    /\ n \in DOMAIN tasks
    /\ \E dup \in BOOLEAN : UpdateTaskCompletion(n, dup)

\* What the Aggregator is to store for a task t that has no subtasks.
AtomicPost(t) ==
    /\ t.derived_completed = t.completed
    /\ t.derived_size = 1
    /\ t.derived_atomic_task_count = 1
    /\ t.derived_has_open_tasks = (~t.completed /\ t.assignee = None)
    /\ DOMAIN t.derived_assignees = {t.assignee} \ {None}
    /\ \A a \in DOMAIN t.derived_assignees :
          /\ t.derived_assignees[a].completed = (IF t.completed THEN 1 ELSE 0)
          /\ t.derived_assignees[a].all = 1

\* C7: every commit of the Aggregator on a task without subtasks stores
\* completed = own flag, size 1, atomic count 1, open = not completed and
\* unassigned, and exactly the assignee's singleton map (empty if there is
\* no assignee), whatever was stored before.
C7_AtomicCommit ==
    [][\A n \in Nodes :
          (CompletionCommit(n) /\ Subtasks(tasks, n) = {}) => AtomicPost(tasks'[n])]_vars

\* C8: every commit of the Aggregator on a task with subtasks stores the
\* AND / 1 + sum / sum / OR / per-key sums of the subtasks' stored derived
\* fields, whatever the task's own completed flag and assignee are.
C8_CompositeCommit ==
    [][\A n \in Nodes :
          (CompletionCommit(n) /\ Subtasks(tasks, n) # {}) =>
              AggregatesMatchSubtasks(tasks', n)]_vars

C8_Witness ==
    \E n \in DOMAIN tasks :
        /\ Subtasks(tasks, n) # {}
        /\ n \in DOMAIN index
        /\ tasks[n].assignee # None
        /\ tasks[n].completed
        /\ ~tasks[n].derived_completed
        /\ DOMAIN tasks[n].derived_assignees # {}
        /\ tasks[n].assignee \notin DOMAIN tasks[n].derived_assignees
        /\ AggregatesMatchSubtasks(tasks, n)

\* The store after the Aggregator has committed on n with query order ord.
AfterCompletion(T, I, U, n, ord) ==
    LET r == CompletionTxn(T, I, U, n, ord)
    IN  [ tasks |-> [T EXCEPT ![n] = r.task], index |-> IndexPut(I, n, r.index) ]

\* C10: from any reachable store, the Aggregator run a second time on the
\* same task, nothing else having changed, stores the same Task and the
\* same TaskIndex as its first run.
C10_AggregatorIdempotent ==
    \A n \in DOMAIN tasks :
        \A ord \in Orders(Subtasks(tasks, n)) :
            LET once == AfterCompletion(tasks, index, users, n, ord)
            IN  AfterCompletion(once.tasks, once.index, users, n, ord) = once

C10_Witness ==
    \E n \in DOMAIN tasks :
        /\ n \in DOMAIN index
        /\ CompletionJob(n) \in queue
        /\ tasks[n].assignee # None
        /\ tasks[n].derived_assignees # << >>
        /\ AfterCompletion(tasks, index, users, n, << >>) =
              [tasks |-> tasks, index |-> index]

\* C9: the writes of the Aggregator on n and its enqueue of the parent's job
\* are one unit.  While the transaction runs, and when it ends without a
\* commit (the enqueue failed or the commit failed), tasks, index and queue
\* are unchanged, so no parent job exists; when it commits, the job of n is
\* done, the Task and TaskIndex of n are the ones it computed and the
\* parent's job, if n has a parent, is in the queue.
C9_TransactionalEnqueue ==
    [][txn' # txn =>
          LET n == IF txn # NoTxn THEN txn.task ELSE txn'.task
          IN  IF CompletionJob(n) \in queue'
              THEN tasks' = tasks /\ index' = index /\ queue' = queue
              ELSE /\ txn # NoTxn
                   /\ txn' = NoTxn
                   /\ n \in DOMAIN tasks =>
                        /\ tasks' = [tasks EXCEPT ![n] = txn.put.task]
                        /\ index' = Put(index, n, txn.put.index)
                        /\ queue' = (queue \ {CompletionJob(n)})
                              \cup (IF tasks'[n].parent_task # None
                                    THEN {CompletionJob(tasks'[n].parent_task)}
                                    ELSE {})]_vars

\* The one task with a parent has had its transaction aborted by a failed
\* enqueue: nothing of it is stored and its parent's job is not pending.
C9_Witness ==
    /\ txn = NoTxn
    /\ failures = 1
    /\ \E n \in DOMAIN tasks :
          /\ \A m \in DOMAIN tasks : (tasks[m].parent_task # None) = (m = n)
          /\ CompletionJob(n) \in queue
          /\ n \notin DOMAIN index
          /\ CompletionJob(tasks[n].parent_task) \notin queue
          /\ tasks[n].parent_task \in DOMAIN index

\* C11: the Locator run a second time on the same task, its parent and the
\* parent's stored hierarchy and level unchanged, stores the same hierarchy
\* and level as its first run, and its query finds the same subtasks to
\* enqueue.
C11_LocatorIdempotent ==
    \A n \in DOMAIN tasks :
        ~ParentIndexMissing(tasks, index, n) =>
            LET once == AfterHierarchy(tasks, index, n)
            IN  /\ AfterHierarchy(once.tasks, once.index, n) = once
                /\ HierarchyChildren(once.tasks, n) = HierarchyChildren(tasks, n)

\* After a duplicate delivery the job of a task below a root, with a
\* subtask of its own, is pending again and stores what is stored.
C11_Witness ==
    /\ redeliveries > 0
    /\ \E n \in DOMAIN tasks :
          /\ HierarchyJob(n) \in queue
          /\ n \in DOMAIN index
          /\ index[n].hierarchy # << >>
          /\ Subtasks(tasks, n) # {}
          /\ AfterHierarchy(tasks, index, n) = [tasks |-> tasks, index |-> index]

\* A delivery of the Locator job of n whose transaction commits.
HierarchyCommit(n) ==
    /\ n \in DOMAIN tasks
    /\ tasks[n].parent_task # None => tasks[n].parent_task \in DOMAIN index
    /\ \E dup \in BOOLEAN : UpdateTaskHierarchy(n, dup)

\* C12: every commit of the Locator on n stores the empty hierarchy and
\* level 0 if n has no parent, and otherwise the hierarchy of the parent's
\* TaskIndex followed by the parent, and the parent's stored level plus one;
\* the stored level is the length of the stored hierarchy.
C12_LocatorCommit ==
    [][\A n \in Nodes :
          HierarchyCommit(n) =>
              LET p == tasks[n].parent_task
              IN  /\ n \in DOMAIN index'
                  /\ IF p = None
                     THEN /\ index'[n].hierarchy = << >>
                          /\ tasks'[n].derived_level = 0
                     ELSE /\ index'[n].hierarchy = index[p].hierarchy \o <<p>>
                          /\ tasks'[n].derived_level = tasks[p].derived_level + 1
                          /\ IndexLevel(index'[n]) = IndexLevel(index[p]) + 1
                  /\ IndexLevel(index'[n]) = tasks'[n].derived_level]_vars

C12_Witness ==
    \E n \in DOMAIN index :
        /\ tasks[n].parent_task # None
        /\ tasks[tasks[n].parent_task].parent_task # None
        /\ index[n].hierarchy =
              <<tasks[tasks[n].parent_task].parent_task, tasks[n].parent_task>>
        /\ tasks[n].derived_level = 2
        /\ n \notin fanout
        /\ HierarchyJob(n) \notin queue

\* C13: a delivery of the Locator job of a task whose parent exists and has
\* no TaskIndex leaves the job in the queue to be delivered again, writes
\* no Task and no TaskIndex, and enqueues no Locator job for a subtask.
C13_ParentIndexMissing ==
    [][\A n \in Nodes :
          ( /\ n \in DOMAIN tasks
            /\ tasks[n].parent_task # None
            /\ tasks[n].parent_task \notin DOMAIN index
            /\ \E dup \in BOOLEAN : UpdateTaskHierarchy(n, dup) )
          => /\ HierarchyJob(n) \in queue'
             /\ queue' = queue
             /\ tasks' = tasks
             /\ index' = index
             /\ fanout' = fanout]_vars

\* No TaskIndex has been written yet, so the duplicate delivery that was
\* counted can only have been one of a Locator job that had to wait.
C13_Witness ==
    /\ redeliveries > 0
    /\ DOMAIN index = {}
    /\ fanout = {}
    /\ \E n \in DOMAIN tasks :
          /\ tasks[n].parent_task # None
          /\ HierarchyJob(n) \in queue

\* The Locator job of n is pending and the parent of n has no TaskIndex.
Waiting(n) ==
    /\ n \in DOMAIN tasks
    /\ HierarchyJob(n) \in queue
    /\ tasks[n].parent_task # None
    /\ tasks[n].parent_task \notin DOMAIN index

\* C14: a Locator job that has to wait for the TaskIndex of the parent is
\* not dropped while it waits, and under fair delivery it is eventually
\* executed: no job stays pending, the hierarchy and level of n are written
\* from the parent's, and the subtasks' jobs have been enqueued and run.
C14_WaitingIsExecuted ==
    /\ \A n \in Nodes :
          Waiting(n) ~> ( /\ Quiescent
                          /\ PathInvariant(n)
                          /\ \A c \in Subtasks(tasks, n) : PathInvariant(c) )
    /\ [][\A n \in Nodes : Waiting(n) => HierarchyJob(n) \in queue']_vars

\* The job of n waits although a TaskIndex of n itself exists already.
C14_Witness ==
    \E n \in Nodes :
        /\ Waiting(n)
        /\ redeliveries > 0
        /\ n \in DOMAIN index
        /\ CompletionJob(tasks[n].parent_task) \in queue

\* A delivery of job for an identifier that has no task.
StaleDelivery(job, dup) ==
    /\ job.task \notin DOMAIN tasks
    /\ IF job.url = "update-task-completion"
       THEN UpdateTaskCompletion(job.task, dup)
       ELSE UpdateTaskHierarchy(job.task, dup)

\* C15: a delivery of an Aggregator or Locator job for an identifier that
\* has no task creates and changes no Task and no TaskIndex and enqueues
\* nothing, neither a parent's job nor a subtask's; the job is done, so
\* under fair delivery, from some point on, no job without a task is pending.
C15_StaleJob ==
    /\ [][\A job \in Jobs :
             /\ StaleDelivery(job, FALSE) =>
                   /\ tasks' = tasks /\ index' = index /\ fanout' = fanout
                   /\ queue' = queue \ {job}
             /\ StaleDelivery(job, TRUE) =>
                   /\ tasks' = tasks /\ index' = index /\ fanout' = fanout
                   /\ queue' = queue]_vars
    /\ <>[](\A job \in queue : job.task \in DOMAIN tasks)

\* Nothing is stored, so the duplicate delivery that was counted was one of
\* a job without a task, and that job is pending no more.
C15_Witness ==
    /\ redeliveries > 0
    /\ DOMAIN tasks = {}
    /\ DOMAIN index = {}
    /\ queue = {}
    /\ fanout = {}

\* C16: post() comes to its subtask query for n only in the step that
\* commits the hierarchy and level of n, and a Locator job of a subtask is
\* added to the queue, other than by an edit, only from there: no subtask's
\* job comes from an execution whose transaction wrote nothing.
C16_FanoutAfterCommit ==
    [][/\ \A n \in fanout' \ fanout :
             /\ n \in DOMAIN tasks
             /\ tasks[n].parent_task # None => tasks[n].parent_task \in DOMAIN index
             /\ n \in DOMAIN index'
             /\ index'[n].hierarchy =
                   IF tasks[n].parent_task = None THEN << >>
                   ELSE index[tasks[n].parent_task].hierarchy \o <<tasks[n].parent_task>>
       /\ \A c \in Nodes :
             (HierarchyJob(c) \in queue' \ queue /\ edits' = edits) =>
                 /\ tasks' = tasks /\ index' = index
                 /\ \E n \in fanout \ fanout' : c = n \/ c \in Subtasks(tasks, n)]_vars

\* The job of a subtask c is pending, enqueued by the execution on its
\* parent, which has committed and is done.
C16_Witness ==
    \E c \in DOMAIN tasks :
        /\ tasks[c].parent_task # None
        /\ HierarchyJob(c) \in queue
        /\ c \in DOMAIN index
        /\ index[c].hierarchy # << >>
        /\ tasks[c].parent_task \notin fanout
        /\ HierarchyJob(tasks[c].parent_task) \notin queue
        /\ tasks[tasks[c].parent_task].derived_level = 1
        /\ Len(index[tasks[c].parent_task].hierarchy) = 1
        /\ index[c].hierarchy # index[tasks[c].parent_task].hierarchy
                                    \o <<tasks[c].parent_task>>

\* C17: when an enqueue of a subtask's Locator job fails after the
\* transaction on n has committed, what was committed stays stored and the
\* job of n is in the queue again; the jobs are all delivered in the end,
\* and then every task of the moved subtree has had its job executed and
\* has the hierarchy and level that follow from its parent's.
C17_FanoutFailure ==
    /\ [][failures' # failures =>
             /\ tasks' = tasks
             /\ index' = index
             /\ \E n \in fanout \ fanout' : HierarchyJob(n) \in queue']_vars
    /\ [](Quiescent =>
             /\ \A n \in DOMAIN tasks : PathInvariant(n)
             /\ moved.node # None =>
                   \A m \in Subtree(tasks, moved.node) : executed[HierarchyJob(m)] >= 1)
    /\ <>[]Quiescent

\* After a failed enqueue the job of the moved task has been executed twice
\* and its subtask carries the new hierarchy.
C17_Witness ==
    /\ Quiescent
    /\ failures > 0
    /\ moved.node # None
    /\ moved.new # None
    /\ executed[HierarchyJob(moved.node)] = 2
    /\ \E c \in Subtasks(tasks, moved.node) :
          /\ executed[HierarchyJob(c)] >= 1
          /\ index[c].hierarchy = <<moved.new, moved.node>>

\* C18: enqueue with transactional=True while no transaction is active
\* raises ValueError and adds no job, neither to the queue nor to a
\* transaction; with transactional=False, or while a transaction is active,
\* it does not raise ValueError, and the job is added to the queue or held
\* by the transaction.
C18_EnqueueOutsideTransaction ==
    \A job \in Jobs, tr \in BOOLEAN :
        LET e == enqueue({job}, tr, txn # NoTxn)
        IN  IF tr /\ txn = NoTxn
            THEN e.raised = "ValueError" /\ e.added = {} /\ e.held = {}
            ELSE e.raised # "ValueError" /\ e.added \cup e.held = {job}

\* A transactional enqueue has committed the parent's job; no transaction
\* is active now, where the same call raises.
C18_Witness ==
    /\ txn = NoTxn
    /\ \E n \in DOMAIN index :
          /\ tasks[n].parent_task # None
          /\ CompletionJob(tasks[n].parent_task) \in queue
          /\ CompletionJob(n) \notin queue
          /\ enqueue({CompletionJob(tasks[n].parent_task)}, TRUE, FALSE).raised
                = "ValueError"

\* The number of Aggregator executions since the last edit.
CompletionExecutions == SumFn([m \in Nodes |-> executed[CompletionJob(m)]], Nodes)

\* C19: with one edit at a time and no duplicate delivery, the Aggregator
\* job enqueued for n by a create, complete or assign runs once for n and
\* once for each ancestor of n, child before parent, and for no other task;
\* at most one job of the chain is pending, and when none is, there have
\* been level(n) + 1 executions.
C19_ChainTermination ==
    (edits > 0 /\ moved.node = None) =>
        \E n \in DOMAIN tasks :
            LET chain   == {n} \cup Ancestors(tasks, n)
                pending == {m \in Nodes : CompletionJob(m) \in queue}
            IN  /\ \A m \in Nodes \ chain : executed[CompletionJob(m)] = 0
                /\ \A m \in chain : executed[CompletionJob(m)] <= 1
                /\ pending \subseteq chain
                /\ Cardinality(pending) <= 1
                /\ \A m \in pending :
                      /\ \A k \in {m} \cup Ancestors(tasks, m) :
                            executed[CompletionJob(k)] = 0
                      /\ \A k \in chain \ ({m} \cup Ancestors(tasks, m)) :
                            executed[CompletionJob(k)] = 1
                /\ pending = {} =>
                      /\ \A m \in chain : executed[CompletionJob(m)] = 1
                      /\ CompletionExecutions = Cardinality(chain)
                      /\ Quiescent => CompletionExecutions = tasks[n].derived_level + 1

\* The chain of a task at level 2 has run: three executions, nothing pending.
C19_Witness ==
    /\ Quiescent
    /\ moved.node = None
    /\ CompletionExecutions = 3
    /\ \E n \in DOMAIN tasks :
          /\ tasks[n].derived_level = 2
          /\ \A m \in {n} \cup Ancestors(tasks, n) : executed[CompletionJob(m)] = 1

\* The fields of a TaskIndex that mirror the aggregates.
Mirror(idx) ==
    [ assignees |-> idx.assignees, completed |-> idx.completed,
      atomic |-> idx.atomic, has_open_tasks |-> idx.has_open_tasks ]

\* The aggregates stored in a Task.
Aggregates(t) ==
    [ derived_completed |-> t.derived_completed, derived_size |-> t.derived_size,
      derived_atomic_task_count |-> t.derived_atomic_task_count,
      derived_has_open_tasks |-> t.derived_has_open_tasks,
      derived_assignees |-> t.derived_assignees ]

\* C20: an execution of the Aggregator changes no task's level and no
\* TaskIndex's hierarchy (a TaskIndex it creates has the empty hierarchy);
\* an execution of the Locator changes no task's completed, size, atomic
\* count, open flag or assignees, and none of the TaskIndex fields completed,
\* has_open_tasks, atomic and assignees (a TaskIndex it creates has their
\* defaults).
C20_Frame ==
    [][/\ (\E n \in Nodes, dup \in BOOLEAN : UpdateTaskCompletion(n, dup)) =>
             /\ DOMAIN tasks' = DOMAIN tasks
             /\ \A m \in DOMAIN tasks : tasks'[m].derived_level = tasks[m].derived_level
             /\ \A m \in DOMAIN index : index'[m].hierarchy = index[m].hierarchy
             /\ \A m \in DOMAIN index' \ DOMAIN index : index'[m].hierarchy = << >>
       /\ ( \/ \E n \in Nodes, dup \in BOOLEAN : UpdateTaskHierarchy(n, dup)
            \/ \E n \in Nodes : HierarchyFanout(n) ) =>
             /\ DOMAIN tasks' = DOMAIN tasks
             /\ \A m \in DOMAIN tasks : Aggregates(tasks'[m]) = Aggregates(tasks[m])
             /\ \A m \in DOMAIN index : Mirror(index'[m]) = Mirror(index[m])
             /\ \A m \in DOMAIN index' \ DOMAIN index :
                   Mirror(index'[m]) = Mirror(NewTaskIndex)]_vars

\* Both workers have written the same TaskIndex: a composite below a root
\* with its hierarchy from the Locator and its assignees from the Aggregator.
C20_Witness ==
    \E n \in DOMAIN index :
        /\ index[n].hierarchy # << >>
        /\ tasks[n].derived_level = Len(index[n].hierarchy)
        /\ Subtasks(tasks, n) # {}
        /\ index[n].assignees # {}
        /\ tasks[n].derived_size = 2
        /\ ~index[n].atomic

\* C21: every commit of the Aggregator on n leaves the TaskIndex of n with
\* completed, has_open_tasks and atomic equal to the derived_completed,
\* derived_has_open_tasks and (derived_size = 1) of the Task written in the
\* same step, in which the TaskIndex exists.
C21_IndexMirror ==
    [][\A n \in Nodes :
          CompletionCommit(n) =>
              /\ n \in DOMAIN index'
              /\ index'[n].completed = tasks'[n].derived_completed
              /\ index'[n].has_open_tasks = tasks'[n].derived_has_open_tasks
              /\ index'[n].atomic = (tasks'[n].derived_size = 1)]_vars

\* A composite whose only subtask is completed: the TaskIndex says completed
\* and not atomic, as the Task does.
C21_Witness ==
    \E n \in DOMAIN index :
        /\ Subtasks(tasks, n) # {}
        /\ tasks[n].derived_completed
        /\ index[n].completed
        /\ ~index[n].atomic
        /\ ~index[n].has_open_tasks
        /\ tasks[n].derived_size = 2

\* Task t with the derived fields the Aggregator writes as a new task has them.
Underived(t) ==
    [t EXCEPT !.derived_completed = FALSE,
              !.derived_size = 1,
              !.derived_atomic_task_count = 0,
              !.derived_assignees = << >>,
              !.derived_has_open_tasks = FALSE]

\* C22: the derived fields the Aggregator stores for n are the same from the
\* store as it is and from the store in which n has the same completed flag,
\* assignee and parent and the same subtasks with the same derived fields,
\* but the derived fields of a new task.
C22_Purity ==
    \A n \in DOMAIN tasks :
        \A ord \in Orders(Subtasks(tasks, n)) :
            Aggregates(CompletionTxn(tasks, index, users, n, ord).task)
              = Aggregates(CompletionTxn([tasks EXCEPT ![n] = Underived(tasks[n])],
                                         index, users, n, ord).task)

\* The keys and counts of a derived_assignees map, without the names.
Counts(da) == [a \in DOMAIN da |-> [completed |-> da[a].completed, all |-> da[a].all]]

\* C23: for a task without subtasks that has an assignee, the Aggregator
\* stores the same completed, size, atomic count, open flag and assignee
\* keys and counts, the same TaskIndex, and enqueues the same parent job,
\* whether the User of the assignee is found or not; when it is not found
\* the name stored for the assignee is '<Missing>'.
C23_NameIndependence ==
    \A n \in DOMAIN tasks :
        (Subtasks(tasks, n) = {} /\ tasks[n].assignee # None) =>
            LET a       == tasks[n].assignee
                found   == CompletionTxn(tasks, index, users \cup {a}, n, << >>)
                missing == CompletionTxn(tasks, index, users \ {a}, n, << >>)
            IN  /\ found.index = missing.index
                /\ [Aggregates(found.task) EXCEPT !.derived_assignees = Counts(@)]
                     = [Aggregates(missing.task) EXCEPT !.derived_assignees = Counts(@)]
                /\ CompletionEnqueued(found.task) = CompletionEnqueued(missing.task)
                /\ missing.task.derived_assignees[a].name = "<Missing>"
                /\ found.task.derived_assignees[a].name # "<Missing>"

\* The job of an assigned task has completed after the User was deleted:
\* the placeholder is stored and the parent has aggregated the record.
C23_Witness ==
    \E n \in DOMAIN tasks :
        /\ tasks[n].assignee # None
        /\ tasks[n].assignee \notin users
        /\ Subtasks(tasks, n) = {}
        /\ tasks[n].assignee \in DOMAIN tasks[n].derived_assignees
        /\ tasks[n].derived_assignees[tasks[n].assignee].name = "<Missing>"
        /\ tasks[n].derived_assignees[tasks[n].assignee].all = 1
        /\ tasks[n].parent_task # None
        /\ tasks[n].assignee \in DOMAIN tasks[tasks[n].parent_task].derived_assignees
        /\ Quiescent

\* C25: for a task with subtasks the Aggregator stores the same Task, with
\* the same name in every assignee record, and the same TaskIndex for every
\* order in which the query returns the subtasks.
C25_OrderIndependence ==
    \A n \in DOMAIN tasks :
        \A ord1, ord2 \in Orders(Subtasks(tasks, n)) :
            CompletionTxn(tasks, index, users, n, ord1)
              = CompletionTxn(tasks, index, users, n, ord2)

\* C24: when the Aggregator commits on a task that was stored as a
\* composite and has no subtask left, it stores derived_completed = the
\* task's own completed flag, size 1, atomic count 1 and open = not
\* completed and unassigned.
C24_LastSubtaskGone ==
    [][\A n \in Nodes :
          ( /\ CompletionCommit(n)
            /\ Subtasks(tasks, n) = {}
            /\ tasks[n].derived_size > 1 )
          => /\ tasks'[n].derived_completed = tasks[n].completed
             /\ tasks'[n].derived_size = 1
             /\ tasks'[n].derived_atomic_task_count = 1
             /\ tasks'[n].derived_has_open_tasks =
                   (~tasks[n].completed /\ tasks[n].assignee = None)
             /\ index'[n].atomic]_vars

\* The only subtask of a completed task was moved away and the job of the
\* old parent has run: it is completed by its own flag again.
C24_Witness ==
    /\ moved.old # None
    /\ Subtasks(tasks, moved.old) = {}
    /\ executed[CompletionJob(moved.old)] = 1
    /\ tasks[moved.old].completed
    /\ tasks[moved.old].derived_completed
    /\ ~tasks[moved.node].derived_completed
    /\ tasks[moved.old].derived_size = 1
    /\ tasks[moved.old].derived_atomic_task_count = 1

\* C26: enqueue calls queue.add a second time, once, after a TransientError:
\* when the first or the second call succeeds one job is added and nothing
\* is raised; when both fail TransientError is raised and no job is added.
C26_EnqueueRetriesOnce ==
    \A job \in Jobs \ queue, first, second \in AddOutcomes :
        LET r     == QueueAdd(first, second)
            after == IF r.added = 1 THEN queue \cup {job} ELSE queue
        IN  /\ r.calls <= 2
            /\ first # "ok" => r.calls = 2
            /\ (first = "ok" \/ second = "ok") =>
                  /\ r.raised = ""
                  /\ after = queue \cup {job}
                  /\ Cardinality(after) = Cardinality(queue) + 1
            /\ (first # "ok" /\ second # "ok") =>
                  r.raised = "TransientError" /\ after = queue

\* A transactional enqueue has failed twice, the transaction was given up,
\* and a later delivery has committed and enqueued the parent's job.
C26_Witness ==
    /\ failures > 0
    /\ txn = NoTxn
    /\ QueueAdd("TransientError", "TransientError").added = 0
    /\ \E n \in DOMAIN index :
          /\ tasks[n].parent_task # None
          /\ \A m \in DOMAIN tasks : tasks[m].parent_task # None => m = n
          /\ CompletionJob(tasks[n].parent_task) \in queue
          /\ tasks[n].derived_atomic_task_count = 1

\* C27: when no job is pending, for every task with subtasks the completed
\* count of Task.summary (the sum of 'completed' over the assignee records)
\* is the number of completed atomic tasks below it, and the task count of
\* the summary is the number of atomic tasks below it.
C27_Summary ==
    Quiescent =>
        \A n \in DOMAIN tasks :
            Subtasks(tasks, n) # {} =>
                /\ summary_completed(tasks[n]) =
                      Cardinality({m \in AtomicTasks(tasks, n) : tasks[m].completed})
                /\ atomic_task_count(tasks[n]) = Cardinality(AtomicTasks(tasks, n))

\* C28: in every reachable state the derived_level of every task is the
\* length of the hierarchy of its TaskIndex, or 0 when it has no TaskIndex.
C28_LevelIsPathLength ==
    \A n \in DOMAIN tasks :
        tasks[n].derived_level =
            IF n \in DOMAIN index THEN IndexLevel(index[n]) ELSE 0

\* Jobs are still pending: the Locator has written level 1 for one task,
\* and another task below a root has a TaskIndex made by the Aggregator alone.
C28_Witness ==
    /\ ~Quiescent
    /\ \E n \in DOMAIN index :
          /\ tasks[n].derived_level = 1
          /\ Len(index[n].hierarchy) = 1
    /\ \E m \in DOMAIN index :
          /\ tasks[m].parent_task # None
          /\ index[m].hierarchy = << >>
          /\ tasks[m].derived_atomic_task_count > 0

\* C29, for the histories in which every edit was a create (then a task
\* with a parent has never been a root, and the Locator writes a nonempty
\* hierarchy for it): a commit of the Locator on n, the parent p of n having
\* a parent itself, finds in the TaskIndex of p a hierarchy that the Locator
\* wrote, not the empty one the Aggregator creates the TaskIndex with.
C29_ParentPathComputed ==
    [][\A n \in Nodes :
          ( /\ HierarchyCommit(n)
            /\ edits = Cardinality(DOMAIN tasks)
            /\ tasks[n].parent_task # None
            /\ tasks[tasks[n].parent_task].parent_task # None )
          => index[tasks[n].parent_task].hierarchy # << >>]_vars

\* C30: every commit of the Aggregator on n leaves in the TaskIndex of n
\* exactly the keys of the derived_assignees stored for n.
C30_IndexAssignees ==
    [][\A n \in Nodes :
          CompletionCommit(n) =>
              index'[n].assignees = DOMAIN tasks'[n].derived_assignees]_vars


\* C31: in every reachable state every record of every task's
\* derived_assignees has 0 <= completed <= all, so that the number of tasks
\* a user has left (subtasks_remaining, personalized_summary, is_active) is
\* never negative.
C31_RecordBounds ==
    \A n \in DOMAIN tasks :
        /\ \A a \in DOMAIN tasks[n].derived_assignees :
              /\ 0 <= tasks[n].derived_assignees[a].completed
              /\ tasks[n].derived_assignees[a].completed
                    <= tasks[n].derived_assignees[a].all
        /\ \A u \in Users : subtasks_remaining(tasks[n], u) >= 0

\* A composite whose two subtasks belong to one user, one of them completed:
\* the user's record reads completed 1 of 2 and the task is active for them.
C31_Witness ==
    \E n \in DOMAIN tasks, u \in Users :
        /\ Cardinality(Subtasks(tasks, n)) = 2
        /\ u \in DOMAIN tasks[n].derived_assignees
        /\ tasks[n].derived_assignees[u].completed = 1
        /\ tasks[n].derived_assignees[u].all = 2
        /\ subtasks_remaining(tasks[n], u) = 1
        /\ is_active(tasks[n], u)

\* C32: every stored derived_size is at least 1, and every commit of the
\* Aggregator on n leaves n with derived_size = 1 and its TaskIndex atomic
\* exactly when n had no subtasks in that transaction; with a subtask the
\* size is at least 2.
C32_AtomicIffNoSubtasks ==
    /\ [](\A n \in DOMAIN tasks : tasks[n].derived_size >= 1)
    /\ [][\A n \in Nodes :
            CompletionCommit(n) =>
                /\ (tasks'[n].derived_size = 1) <=> (Subtasks(tasks, n) = {})
                /\ index'[n].atomic <=> (Subtasks(tasks, n) = {})
                /\ Subtasks(tasks, n) # {} => tasks'[n].derived_size >= 2]_vars

\* A composite aggregated from a subtask that still has its default derived
\* values is not atomic, and an aggregated task without subtasks is.
C32_Witness ==
    \E n, c \in DOMAIN tasks :
        /\ tasks[c].parent_task = n
        /\ c \notin DOMAIN index
        /\ tasks[c].derived_atomic_task_count = 0
        /\ n \in DOMAIN index
        /\ tasks[n].derived_size = 2
        /\ ~index[n].atomic
        /\ \E m \in DOMAIN index : index[m].atomic /\ tasks[m].derived_size = 1

\* C33: in every reachable state no task has derived_completed and
\* derived_has_open_tasks both true, whether or not its subtasks have been
\* aggregated yet.
C33_CompletedNotOpen ==
    \A n \in DOMAIN tasks :
        ~(tasks[n].derived_completed /\ tasks[n].derived_has_open_tasks)

\* A composite aggregated while one subtask is open and another still has
\* its default derived values: it has open tasks and is not completed.
C33_Witness ==
    \E n, c, d \in DOMAIN tasks :
        /\ c # d
        /\ tasks[c].parent_task = n
        /\ tasks[d].parent_task = n
        /\ tasks[c].derived_atomic_task_count = 0
        /\ CompletionJob(c) \in queue
        /\ tasks[d].derived_has_open_tasks
        /\ n \in DOMAIN index
        /\ tasks[n].derived_has_open_tasks
        /\ ~tasks[n].derived_completed
        /\ index[n].has_open_tasks


\* The Task and TaskIndex entities of every task but n are as they were.
OthersUnchanged(n) ==
    /\ DOMAIN tasks' = DOMAIN tasks
    /\ \A m \in DOMAIN tasks \ {n} : tasks'[m] = tasks[m]
    /\ DOMAIN index' \subseteq DOMAIN index \cup {n}
    /\ \A m \in DOMAIN index \ {n} : index'[m] = index[m]

\* C34: an execution of the Aggregator or of the Locator for n writes only
\* the Task and the TaskIndex of n and leaves those of every other task as
\* they were; the Aggregator adds no job but the Aggregator job of the
\* parent of n, the Locator adds no jobs but the Locator jobs of the direct
\* subtasks of n (when its enqueues fail, its own job stays pending).
C34_WorkerFrame ==
    [][\A n \in Nodes :
          /\ (\E dup \in BOOLEAN : UpdateTaskCompletion(n, dup)) =>
                /\ OthersUnchanged(n)
                /\ queue' \ queue \subseteq
                      IF n \in DOMAIN tasks /\ tasks[n].parent_task # None
                      THEN {CompletionJob(tasks[n].parent_task)} ELSE {}
          /\ (\E dup \in BOOLEAN : UpdateTaskHierarchy(n, dup)) =>
                /\ OthersUnchanged(n)
                /\ queue' \subseteq queue
          /\ HierarchyFanout(n) =>
                /\ tasks' = tasks /\ index' = index
                /\ queue' \ queue \subseteq {HierarchyJob(c) : c \in Subtasks(tasks, n)}
          /\ HierarchyFanoutFail(n) =>
                /\ tasks' = tasks /\ index' = index
                /\ queue' \ queue \subseteq
                      {HierarchyJob(c) : c \in Subtasks(tasks, n)} \cup {HierarchyJob(n)}]_vars

\* Both workers have run on a task between its parent and its subtask: the
\* task has its level and its size, its parent and its subtask have the
\* values they had before, and the jobs pending are the Aggregator job of
\* the parent and the Locator job of the subtask.
C34_Witness ==
    \E p, n, c \in DOMAIN tasks :
        /\ tasks[n].parent_task = p
        /\ tasks[c].parent_task = n
        /\ tasks[n].derived_level = 1
        /\ tasks[n].derived_size = 2
        /\ tasks[p].derived_size = 1
        /\ p \in DOMAIN index
        /\ c \notin DOMAIN index
        /\ tasks[c].derived_atomic_task_count = 0
        /\ CompletionJob(p) \in queue
        /\ HierarchyJob(c) \in queue
        /\ HierarchyJob(n) \notin queue
        /\ CompletionJob(n) \notin queue
        /\ n \notin fanout


\* C35: get_and_delete_messages returns the messages added since the
\* previous get_and_delete_messages, in the order they were added, and
\* leaves the session without a 'messages' entry, so that calling it again
\* with no add_message in between returns the empty list.
C35_FlashOnce ==
    [][get_and_delete_messages =>
          /\ returned' = sent
          /\ "messages" \notin DOMAIN session'
          /\ setdefault(session', "messages", << >>).value = << >>]_vars

\* Two messages were added, the higher one first, and have been returned in
\* that order; the session has no entry and nothing has been added since.
C35_Witness ==
    /\ returned = <<2, 1>>
    /\ "messages" \notin DOMAIN session
    /\ sent = << >>

====
